---- MODULE Spec2Model ----
(***************************************************************************)
(* pdf2md-js: the full-page pipeline of parsePdf (src/src/index.ts) with   *)
(* its bounded-concurrency scheduler processInParallel, the progress       *)
(* protocol, and the heading reconciliation helpers of src/src/utils.ts.   *)
(*                                                                         *)
(* A JavaScript string is a sequence of one-character strings.             *)
(***************************************************************************)
EXTENDS Integers, Sequences, FiniteSets, TLC

(***************************************************************************)
(* Bounds of the model.                                                    *)
(***************************************************************************)
MaxPages == 4
MaxConcurrency == 2

(***************************************************************************)
(* String primitives (ECMAScript semantics).                               *)
(***************************************************************************)
Min(a, b) == IF a <= b THEN a ELSE b
Max(a, b) == IF a >= b THEN a ELSE b

\* \s of a JavaScript regular expression, restricted to the model's alphabet
IsWs(c) == c \in {" ", "\t", "\r", "\n"}
\* the characters '.' does not match
IsLineTerm(c) == c \in {"\n", "\r"}

\* s.substring(a, b) with 0-based bounds: clamps to [0, length], swaps a > b
Substring(s, a, b) ==
  LET ca == Max(0, Min(a, Len(s)))
      cb == Max(0, Min(b, Len(s)))
      lo == Min(ca, cb)
      hi == Max(ca, cb)
  IN  [i \in 1..(hi - lo) |-> s[lo + i]]

\* TRUE iff pat occurs in s at 0-based position i
OccursAt(s, pat, i) ==
  /\ i >= 0
  /\ i + Len(pat) <= Len(s)
  /\ \A k \in 1..Len(pat) : s[i + k] = pat[k]

\* s.indexOf(pat): 0-based, -1 when absent
IndexOf(s, pat) ==
  LET hits == {i \in 0..Len(s) : OccursAt(s, pat, i)}
  IN  IF hits = {} THEN -1 ELSE CHOOSE i \in hits : \A j \in hits : i <= j

\* s.lastIndexOf(pat): 0-based, -1 when absent
LastIndexOf(s, pat) ==
  LET hits == {i \in 0..Len(s) : OccursAt(s, pat, i)}
  IN  IF hits = {} THEN -1 ELSE CHOOSE i \in hits : \A j \in hits : i >= j

\* s.split('\n')
RECURSIVE SplitLines(_)
SplitLines(s) ==
  LET nl == IndexOf(s, <<"\n">>)
  IN  IF nl = -1 THEN <<s>>
      ELSE <<Substring(s, 0, nl)>> \o SplitLines(Substring(s, nl + 1, Len(s)))

\* lines.join('\n')
RECURSIVE JoinLines(_)
JoinLines(lines) ==
  IF Len(lines) = 0 THEN <<>>
  ELSE IF Len(lines) = 1 THEN lines[1]
  ELSE lines[1] \o <<"\n">> \o JoinLines(Tail(lines))

\* s.trim()
RECURSIVE Trim(_)
Trim(s) ==
  IF Len(s) = 0 THEN s
  ELSE IF IsWs(s[1]) THEN Trim(Tail(s))
  ELSE IF IsWs(s[Len(s)]) THEN Trim(SubSeq(s, 1, Len(s) - 1))
  ELSE s

\* '#'.repeat(n)
Hashes(n) == [i \in 1..n |-> "#"]

\* length of the longest prefix of s (from 0-based position from) whose
\* characters all satisfy the class: "hash", "ws" or "dot"
InClass(c, class) ==
  CASE class = "hash" -> c = "#"
    [] class = "ws"   -> IsWs(c)
    [] class = "dot"  -> ~IsLineTerm(c)

RunLength(s, from, class) ==
  LET stops == {k \in 0..(Len(s) - from) :
                  k = Len(s) - from \/ ~InClass(s[from + k + 1], class)}
  IN  CHOOSE k \in stops : \A j \in stops : k <= j

(***************************************************************************)
(* src/src/utils.ts                                                        *)
(***************************************************************************)
\* the opening delimiter searched by extractMdFromLLMOutput
\* (the grave accent, which a TLA+ string cannot hold, is written "^")
FenceOpen == <<"^", "^", "^", "m", "a", "r", "k", "d", "o", "w", "n">>
FenceClose == <<"^", "^", "^">>
\* offset added to the position of the opening delimiter
FenceSkip == 12

Undefined == [defined |-> FALSE, value |-> <<>>]
Defined(v) == [defined |-> TRUE, value |-> v]

\* an extraction that takes an answer without delimiters as the outline
extractMdLenient(output) ==
  LET mdStart == IndexOf(output, FenceOpen)
      mdEnd   == LastIndexOf(output, FenceClose)
  IN  IF mdStart # -1 /\ mdEnd # -1
      THEN Defined(Substring(output, mdStart + FenceSkip, mdEnd))
      ELSE Defined(output)

extractMdFromLLMOutput(output) ==
  LET mdStart == IndexOf(output, FenceOpen)
      mdEnd   == LastIndexOf(output, FenceClose)
  IN  IF mdStart # -1 /\ mdEnd # -1
      THEN Defined(Substring(output, mdStart + FenceSkip, mdEnd))
      ELSE Undefined

\* line.match(/^#+\s*(.*)/): [matched, content] with content = match[1]
MatchHeadingLine(line) ==
  LET h == RunLength(line, 0, "hash")
      w == RunLength(line, h, "ws")
      d == RunLength(line, h + w, "dot")
  IN  IF h = 0 THEN [matched |-> FALSE, content |-> <<>>]
      ELSE [matched |-> TRUE, content |-> Substring(line, h + w, h + w + d)]

\* line.match(/^(#+)\s*(.+)/): [matched, level, text] with level =
\* match[1].length and text = match[2]; (#+) and \s* are greedy and give
\* characters back, last taken first, until (.+) finds a character
MatchOutlineLine(line) ==
  LET h  == RunLength(line, 0, "hash")
      w  == RunLength(line, h, "ws")
      ok == {k \in 0..w : h + k < Len(line) /\ ~IsLineTerm(line[h + k + 1])}
      kw == CHOOSE k \in ok : \A j \in ok : k >= j
  IN  IF h = 0 THEN [matched |-> FALSE, level |-> 0, text |-> <<>>]
      ELSE IF ok # {}
        THEN [matched |-> TRUE, level |-> h,
              text |-> Substring(line, h + kw,
                                 h + kw + RunLength(line, h + kw, "dot"))]
      ELSE IF h >= 2
        THEN [matched |-> TRUE, level |-> h - 1,
              text |-> Substring(line, h - 1,
                                 h - 1 + RunLength(line, h - 1, "dot"))]
      ELSE [matched |-> FALSE, level |-> 0, text |-> <<>>]

\* map.set(key, value) on a Map held as a function
MapSet(map, key, value) ==
  [k \in DOMAIN map \cup {key} |-> IF k = key THEN value ELSE map[k]]

EmptyMap == [k \in {} |-> 0]

RECURSIVE TitleLevelLoop(_, _)
TitleLevelLoop(lines, map) ==
  IF Len(lines) = 0 THEN map
  ELSE LET headerMatch == MatchOutlineLine(lines[1])
       IN  TitleLevelLoop(Tail(lines),
             IF headerMatch.matched
             THEN MapSet(map, Trim(headerMatch.text), headerMatch.level)
             ELSE map)

createTitleLevelMap(data) == TitleLevelLoop(SplitLines(data), EmptyMap)

\* the lines of the text that match the heading pattern, joined by '\n'
getOldMarkdownHeadings(markdownText) ==
  JoinLines(SelectSeq(SplitLines(markdownText),
                      LAMBDA line : MatchHeadingLine(line).matched))

\* a forEach body that also rebuilds the heading lines the map lacks
AdjustLineNormalises(line, map) ==
  LET match == MatchHeadingLine(line)
  IN  IF ~match.matched THEN line
      ELSE Hashes(IF match.content \in DOMAIN map THEN map[match.content]
                  ELSE RunLength(line, 0, "hash"))
             \o <<" ">> \o match.content

\* one iteration of the forEach of adjustMarkdownHeadings
AdjustLine(line, map) ==
  LET match == MatchHeadingLine(line)
  IN  IF ~match.matched THEN line
      ELSE IF match.content \in DOMAIN map
        THEN Hashes(map[match.content]) \o <<" ">> \o match.content
      ELSE line

adjustMarkdownHeadings(markdownText, newTitle) ==
  LET map   == createTitleLevelMap(newTitle)
      lines == SplitLines(markdownText)
  IN  JoinLines([i \in 1..Len(lines) |-> AdjustLine(lines[i], map)])

(***************************************************************************)
(* The collaborators of parsePdf: what the vision model answers.           *)
(***************************************************************************)
Letters == <<"a", "b", "c", "d", "e">>
PageName(p) == Letters[((p - 1) % Len(Letters)) + 1]

\* the Markdown the model returns for page p: odd pages open with a
\* first-level heading, even pages are body text only
PageText(p) ==
  IF p % 2 = 1 THEN <<"#", " ", PageName(p), "\n", "x", PageName(p)>>
  ELSE <<"y", PageName(p)>>

\* the answers of the text-only invocation that revises the outline
OutlineNoFence == <<"o", "k">>
OutlineRelevel == FenceOpen \o <<"\n", "#", "#", " ", "a", "\n">> \o FenceClose
OutlineSame    == FenceOpen \o <<"\n", "#", " ", "a", "\n", "#", " ", "c", "\n">>
                    \o FenceClose
\* a revised outline without the fence, and one whose fence is never closed
OutlineBare     == <<"#", "#", " ", "a">>
OutlineUnclosed == FenceOpen \o <<"\n", "#", "#", " ", "a">>
OutlineAnswers ==
  {OutlineNoFence, OutlineRelevel, OutlineSame, OutlineBare, OutlineUnclosed}

(***************************************************************************)
(* src/src/index.ts: state of one parsePdf run.                            *)
(***************************************************************************)
VARIABLES
  pc,              \* where parsePdf is: "start", "pipeline", "reconcile",
                   \* "writing", "resolved", "rejected"
  error,           \* the reason parsePdf rejected with, "none" otherwise
  onProgressGiven, \* options.onProgress is supplied
  concurrency,     \* options.concurrency
  imageFiles,      \* page indices returned by generateFullPageImages
  queue,           \* processInParallel: queue
  inProgress,      \* processInParallel: inProgress
  results,         \* processInParallel: results (promises, by page)
  sched,           \* where processInParallel is: "idle", "filling",
                   \* "waiting", "spinning", "done"
  raceSet,         \* the promises handed to Promise.race
  task,            \* per page: position of processImages and its promise
  outcome,         \* per page: how the model invocation settled
  marker,          \* per page: the value processImages returned
  pageContents,    \* the shared results collection
  pushOrder,       \* history: page indices in the order they were pushed
  updates,         \* history: the ProgressInfo values passed to onProgress
  thrown,          \* history: update kinds at which onProgress threw
  content,         \* parsePdf: content
  convertContent,  \* parsePdf: convertContent
  file,            \* the text written to the .md file
  returned,        \* the ParseResult.content parsePdf resolved with
  convertedTitleLLMResult, \* parsePdf: the answer of the text-only invocation
  markdownText,    \* adjustMarkdownHeadings: the document passed in
  newTitle,        \* adjustMarkdownHeadings: the outline passed in
  adjusted,        \* adjustMarkdownHeadings: the text returned
  llmOutput,       \* extractMdFromLLMOutput: the model answer passed in
  extracted,       \* extractMdFromLLMOutput: <<>> before the call, then
                   \* <<what it returned>>
  regionPc,        \* convertImagesToMarkdown on one page: "idle", "start",
                   \* "awaiting" (at await Promise.all(batch)), "done"
  rectImages,      \* the number of region images of the page
  batchSize,       \* the concurrency option of convertImagesToMarkdown
  tasks,           \* region |-> "none", "invoking", "markdown" or "comment"
  batchStart,      \* the loop variable i of the batch loop
  batchResults,    \* results: the rectIndex of every entry pushed so far
  pageMarkdown,    \* pageMarkdownParts, as the rectIndex of each part
  rectCall,        \* rectProcessor: the operation called and its arguments
  rectResult       \* rectProcessor: what the call returned

vars == <<pc, error, onProgressGiven, concurrency, imageFiles, queue,
          inProgress, results, sched, raceSet, task, outcome, marker,
          pageContents, pushOrder, updates, thrown, content, convertContent,
          file, returned, convertedTitleLLMResult, markdownText, newTitle,
          adjusted, llmOutput, extracted, regionPc, rectImages, batchSize,
          tasks, batchStart, batchResults, pageMarkdown, rectCall,
          rectResult>>

\* the state of the pure helpers, which parsePdf's steps never touch
extractVars == <<llmOutput, extracted>>
regionVars == <<regionPc, rectImages, batchSize, tasks, batchStart,
                batchResults, pageMarkdown>>
headingVars == <<markdownText, newTitle, adjusted, extractVars, regionVars>>
rectVars == <<rectCall, rectResult>>

ExtractIdle ==
  /\ llmOutput = <<>>
  /\ extracted = <<>>

RegionIdle ==
  /\ regionPc = "idle"
  /\ rectImages = 0
  /\ batchSize = 1
  /\ tasks = <<>>
  /\ batchStart = 0
  /\ batchResults = <<>>
  /\ pageMarkdown = <<>>

HeadingsIdle ==
  /\ markdownText = <<>>
  /\ newTitle = <<>>
  /\ adjusted = Undefined
  /\ ExtractIdle
  /\ RegionIdle

RectsIdle ==
  /\ rectCall = [op |-> "none"]
  /\ rectResult = Undefined

Pages == 1..MaxPages

\* generateFullPageImages: one PageImage per page, index = i + 1
PageImages(n) == [i \in 1..n |-> i]

ProgressInfo(current, total, taskStatus) ==
  [current |-> current, total |-> total, taskStatus |-> taskStatus]

Init ==
  /\ pc = "start"
  /\ error = "none"
  /\ onProgressGiven \in BOOLEAN
  /\ concurrency \in -1..MaxConcurrency
  /\ imageFiles = <<>>
  /\ queue = <<>>
  /\ inProgress = {}
  /\ results = <<>>
  /\ sched = "idle"
  /\ raceSet = {}
  /\ task = [p \in Pages |-> "none"]
  /\ outcome = [p \in Pages |-> "none"]
  /\ marker = [p \in Pages |-> "none"]
  /\ pageContents = <<>>
  /\ pushOrder = <<>>
  /\ updates = <<>>
  /\ thrown = {}
  /\ content = <<>>
  /\ convertContent = <<>>
  /\ file = Undefined
  /\ returned = Undefined
  /\ convertedTitleLLMResult = Undefined
  /\ HeadingsIdle
  /\ RectsIdle

(***************************************************************************)
(* processInParallel (src/src/index.ts, lines 170-194).                    *)
(***************************************************************************)
\* the condition of the outer while
LoopContinues(q, inP) == Len(q) > 0 \/ Cardinality(inP) > 0

\* a slot test that admits one invocation too many
HasFreeSlotOffByOne(q, inP, limit) == Cardinality(inP) <= limit /\ Len(q) > 0

\* a slot test that leaves the last slot unused
HasFreeSlotOneShort(q, inP, limit) ==
  Cardinality(inP) + 1 < limit /\ Len(q) > 0

\* the condition of the inner while
HasFreeSlot(q, inP, limit) == Cardinality(inP) < limit /\ Len(q) > 0

\* queue.shift(): the item taken and the queue left
ShiftItem(q) == Head(q)
\* a shift that leaves the item in the queue
ShiftRestKeeps(q) == q
ShiftRest(q) == Tail(q)

\* a settlement that leaves the promise in the set
DeleteSettledNever(inP, p) == inP

\* inProgress.delete(promise)
DeleteSettled(inP, p) == inP \ {p}

\* JavaScript runs the scheduler to its next await before anything else:
\* no callback runs while processInParallel is between two awaits
Idle == sched \notin {"filling", "spinning"}

\* one iteration of the inner while: start the invocation of the next page
StartTask ==
  /\ sched = "filling"
  /\ LoopContinues(queue, inProgress)
  /\ HasFreeSlot(queue, inProgress, concurrency)
  /\ LET item == ShiftItem(queue)
     IN  /\ queue' = ShiftRest(queue)
         /\ task' = [task EXCEPT ![item] = "invoking"]
         /\ inProgress' = inProgress \cup {item}
         /\ results' = Append(results, item)
  /\ UNCHANGED <<pc, error, onProgressGiven, concurrency, imageFiles, sched,
                 raceSet, outcome, marker, pageContents, pushOrder, updates,
                 thrown, content, convertContent, file, returned>>
  /\ UNCHANGED <<convertedTitleLLMResult, headingVars, rectVars>>

\* await Promise.race(inProgress)
AwaitRace ==
  /\ sched = "filling"
  /\ LoopContinues(queue, inProgress)
  /\ ~HasFreeSlot(queue, inProgress, concurrency)
  /\ Cardinality(inProgress) > 0
  /\ sched' = "waiting"
  /\ raceSet' = inProgress
  /\ UNCHANGED <<pc, error, onProgressGiven, concurrency, imageFiles, queue,
                 inProgress, results, task, outcome, marker, pageContents,
                 pushOrder, updates, thrown, content, convertContent, file,
                 returned>>
  /\ UNCHANGED <<convertedTitleLLMResult, headingVars, rectVars>>

\* an iteration of the outer while that starts nothing and awaits nothing
Spin ==
  /\ sched \in {"filling", "spinning"}
  /\ LoopContinues(queue, inProgress)
  /\ ~HasFreeSlot(queue, inProgress, concurrency)
  /\ Cardinality(inProgress) = 0
  /\ sched' = "spinning"
  /\ UNCHANGED <<pc, error, onProgressGiven, concurrency, imageFiles, queue,
                 inProgress, results, raceSet, task, outcome, marker,
                 pageContents, pushOrder, updates, thrown, content,
                 convertContent, file, returned>>
  /\ UNCHANGED <<convertedTitleLLMResult, headingVars, rectVars>>

\* the outer while ends: return Promise.all(results)
SchedulerReturn ==
  /\ sched = "filling"
  /\ ~LoopContinues(queue, inProgress)
  /\ sched' = "done"
  /\ UNCHANGED <<pc, error, onProgressGiven, concurrency, imageFiles, queue,
                 inProgress, results, raceSet, task, outcome, marker,
                 pageContents, pushOrder, updates, thrown, content,
                 convertContent, file, returned>>
  /\ UNCHANGED <<convertedTitleLLMResult, headingVars, rectVars>>

\* the race settles once one of its promises has resolved
Resume ==
  /\ sched = "waiting"
  /\ \E p \in raceSet : task[p] = "deleted"
  /\ sched' = "filling"
  /\ raceSet' = {}
  /\ UNCHANGED <<pc, error, onProgressGiven, concurrency, imageFiles, queue,
                 inProgress, results, task, outcome, marker, pageContents,
                 pushOrder, updates, thrown, content, convertContent, file,
                 returned>>
  /\ UNCHANGED <<convertedTitleLLMResult, headingVars, rectVars>>

\* the .then callback of a page's promise
ThenCallback(p) ==
  /\ Idle
  /\ task[p] = "returned"
  /\ inProgress' = DeleteSettled(inProgress, p)
  /\ task' = [task EXCEPT ![p] = "deleted"]
  /\ UNCHANGED <<pc, error, onProgressGiven, concurrency, imageFiles, queue,
                 results, sched, raceSet, outcome, marker, pageContents,
                 pushOrder, updates, thrown, content, convertContent, file,
                 returned>>
  /\ UNCHANGED <<convertedTitleLLMResult, headingVars, rectVars>>

(***************************************************************************)
(* processImages (src/src/index.ts, lines 84-110).                         *)
(***************************************************************************)
\* modelClient.processImage settles
ModelSettle(p, ok) ==
  /\ Idle
  /\ task[p] = "invoking"
  /\ outcome' = [outcome EXCEPT ![p] = IF ok THEN "ok" ELSE "fail"]
  /\ task' = [task EXCEPT ![p] = "resuming"]
  /\ UNCHANGED <<pc, error, onProgressGiven, concurrency, imageFiles, queue,
                 inProgress, results, sched, raceSet, marker, pageContents,
                 pushOrder, updates, thrown, content, convertContent, file,
                 returned>>
  /\ UNCHANGED <<convertedTitleLLMResult, headingVars, rectVars>>

\* a push that also records a page whose invocation failed
PushContentAlways(contents, p, ok) ==
  Append(contents, [pageIndex |-> p, content |-> PageText(p)])

\* pageContents.push({pageIndex, content}) of a page whose invocation succeeded
PushContent(contents, p, ok) ==
  IF ok THEN Append(contents, [pageIndex |-> p, content |-> PageText(p)])
  ELSE contents

\* a 'running' update that reports completion with the last page
RunningUpdateFinishesEarly(contents, total) ==
  ProgressInfo(Len(contents), total,
               IF Len(contents) = total THEN "finished" ELSE "running")

\* a 'running' update that reports the index of the page just completed
RunningUpdateByPageIndex(contents, total) ==
  ProgressInfo(contents[Len(contents)].pageIndex, total, "running")

\* a 'running' update that reads the length before the push
RunningUpdateBeforePush(contents, total) ==
  ProgressInfo(Len(contents) - 1, total, "running")

\* the 'running' update: current is pageContents.length after the push
RunningUpdate(contents, total) == ProgressInfo(Len(contents), total, "running")

\* what processImages returns: success unless the try block threw
ProcessImagesResult(ok, threw) ==
  IF ok /\ ~threw THEN "success" ELSE "failure"

\* processImages after its await: the rest of the try block, or the catch
Continue(p, throws) ==
  /\ Idle
  /\ task[p] = "resuming"
  /\ throws => (outcome[p] = "ok" /\ onProgressGiven)
  /\ LET ok == outcome[p] = "ok"
         pushed == PushContent(pageContents, p, ok)
     IN  /\ pageContents' = pushed
         /\ pushOrder' = IF ok THEN Append(pushOrder, p) ELSE pushOrder
         /\ updates' = IF ok /\ onProgressGiven
                       THEN Append(updates,
                                   RunningUpdate(pushed, Len(imageFiles)))
                       ELSE updates
         /\ thrown' = IF throws THEN thrown \cup {"running"} ELSE thrown
         /\ marker' = [marker EXCEPT ![p] = ProcessImagesResult(ok, throws)]
  /\ task' = [task EXCEPT ![p] = "returned"]
  /\ UNCHANGED <<pc, error, onProgressGiven, concurrency, imageFiles, queue,
                 inProgress, results, sched, raceSet, outcome, content,
                 convertContent, file, returned>>
  /\ UNCHANGED <<convertedTitleLLMResult, headingVars, rectVars>>

(***************************************************************************)
(* parsePdf (src/src/index.ts, lines 45-164).                              *)
(***************************************************************************)
StartingUpdate(total) == ProgressInfo(0, total, "starting")
FinishedUpdate(total) == ProgressInfo(total, total, "finished")

\* pageContents.sort((a, b) => a.pageIndex - b.pageIndex): a stable sort
InsertByPageIndex(sorted, x) ==
  LET k == Cardinality({i \in 1..Len(sorted) :
                          sorted[i].pageIndex <= x.pageIndex})
  IN  SubSeq(sorted, 1, k) \o <<x>> \o SubSeq(sorted, k + 1, Len(sorted))

\* an assembly that keeps the completion order
SortByPageIndexOmitted(contents) == contents

RECURSIVE SortByPageIndex(_)
SortByPageIndex(contents) ==
  IF Len(contents) = 0 THEN <<>>
  ELSE InsertByPageIndex(SortByPageIndex(SubSeq(contents, 1, Len(contents) - 1)),
                         contents[Len(contents)])

\* for (const page of pageContents) content += page.content + '\n'
RECURSIVE ConcatPages(_)
ConcatPages(contents) ==
  IF Len(contents) = 0 THEN <<>>
  ELSE contents[1].content \o <<"\n">> \o ConcatPages(Tail(contents))

\* convertedTitle || ''
OrEmpty(v) == IF v.defined THEN v.value ELSE <<>>

\* the content field of the ParseResult
ResultContent(assembled, converted) == assembled

\* fs.ensureDir or generateFullPageImages rejects
RenderFails ==
  /\ pc = "start"
  /\ pc' = "rejected"
  /\ error' = "render"
  /\ UNCHANGED <<onProgressGiven, concurrency, imageFiles, queue, inProgress,
                 results, sched, raceSet, task, outcome, marker, pageContents,
                 pushOrder, updates, thrown, content, convertContent, file,
                 returned>>
  /\ UNCHANGED <<convertedTitleLLMResult, headingVars, rectVars>>

\* the pages are rendered: the 'starting' update, then processInParallel
\* is called and runs to its first await
RenderDone(n, throws) ==
  /\ pc = "start"
  /\ throws => onProgressGiven
  /\ imageFiles' = PageImages(n)
  /\ updates' = IF onProgressGiven THEN Append(updates, StartingUpdate(n))
                ELSE updates
  /\ IF throws
     THEN /\ thrown' = thrown \cup {"starting"}
          /\ pc' = "rejected"
          /\ error' = "onProgress"
          /\ UNCHANGED <<queue, sched, task>>
     ELSE /\ pc' = "pipeline"
          /\ queue' = PageImages(n)
          /\ sched' = "filling"
          /\ task' = [p \in Pages |-> IF p <= n THEN "queued" ELSE "none"]
          /\ UNCHANGED <<thrown, error>>
  /\ UNCHANGED <<onProgressGiven, concurrency, inProgress, results, raceSet,
                 outcome, marker, pageContents, pushOrder, content,
                 convertContent, file, returned>>
  /\ UNCHANGED <<convertedTitleLLMResult, headingVars, rectVars>>

\* processInParallel has resolved: sort, concatenate, ask for the outline
Assemble ==
  /\ pc = "pipeline"
  /\ sched = "done"
  /\ pageContents' = SortByPageIndex(pageContents)
  /\ content' = ConcatPages(pageContents')
  /\ pc' = "reconcile"
  /\ UNCHANGED <<error, onProgressGiven, concurrency, imageFiles, queue,
                 inProgress, results, sched, raceSet, task, outcome, marker,
                 pushOrder, updates, thrown, convertContent, file, returned>>
  /\ UNCHANGED <<convertedTitleLLMResult, headingVars, rectVars>>

\* a rejection of the text-only invocation that is caught: the unadjusted
\* content goes on to be written
ReconcileFailsSwallowed ==
  /\ pc = "reconcile"
  /\ pc' = "writing"
  /\ error' = "reconcile"
  /\ convertContent' = content
  /\ UNCHANGED <<onProgressGiven, concurrency, imageFiles, queue, inProgress,
                 results, sched, raceSet, task, outcome, marker, pageContents,
                 pushOrder, updates, thrown, content, file, returned>>
  /\ UNCHANGED <<convertedTitleLLMResult, headingVars, rectVars>>

\* the text-only invocation rejects
ReconcileFails ==
  /\ pc = "reconcile"
  /\ pc' = "rejected"
  /\ error' = "reconcile"
  /\ UNCHANGED <<onProgressGiven, concurrency, imageFiles, queue, inProgress,
                 results, sched, raceSet, task, outcome, marker, pageContents,
                 pushOrder, updates, thrown, content, convertContent, file,
                 returned>>
  /\ UNCHANGED <<convertedTitleLLMResult, headingVars, rectVars>>

\* the text-only invocation answers: extract the outline, adjust the headings
ReconcileDone(answer) ==
  /\ pc = "reconcile"
  /\ convertContent' =
       adjustMarkdownHeadings(content, OrEmpty(extractMdFromLLMOutput(answer)))
  /\ pc' = "writing"
  /\ UNCHANGED <<error, onProgressGiven, concurrency, imageFiles, queue,
                 inProgress, results, sched, raceSet, task, outcome, marker,
                 pageContents, pushOrder, updates, thrown, content, file,
                 returned>>
  /\ convertedTitleLLMResult' = Defined(answer)
  /\ UNCHANGED <<headingVars, rectVars>>

\* fs.writeFile rejects
WriteFails ==
  /\ pc = "writing"
  /\ pc' = "rejected"
  /\ error' = "write"
  /\ UNCHANGED <<onProgressGiven, concurrency, imageFiles, queue, inProgress,
                 results, sched, raceSet, task, outcome, marker, pageContents,
                 pushOrder, updates, thrown, content, convertContent, file,
                 returned>>
  /\ UNCHANGED <<convertedTitleLLMResult, headingVars, rectVars>>

\* the file is written: the 'finished' update, then the result
WriteDone(throws) ==
  /\ pc = "writing"
  /\ throws => onProgressGiven
  /\ file' = Defined(convertContent)
  /\ updates' = IF onProgressGiven
                THEN Append(updates, FinishedUpdate(Len(imageFiles)))
                ELSE updates
  /\ IF throws
     THEN /\ thrown' = thrown \cup {"finished"}
          /\ pc' = "rejected"
          /\ error' = "onProgress"
          /\ UNCHANGED returned
     ELSE /\ pc' = "resolved"
          /\ returned' = Defined(ResultContent(content, convertContent))
          /\ UNCHANGED <<thrown, error>>
  /\ UNCHANGED <<onProgressGiven, concurrency, imageFiles, queue, inProgress,
                 results, sched, raceSet, task, outcome, marker, pageContents,
                 pushOrder, content, convertContent>>
  /\ UNCHANGED <<convertedTitleLLMResult, headingVars, rectVars>>

(***************************************************************************)
(* Specifications.                                                         *)
(***************************************************************************)
SchedulerNext ==
  \/ StartTask
  \/ AwaitRace
  \/ Spin
  \/ SchedulerReturn
  \/ Resume
  \/ \E p \in Pages : ThenCallback(p)

TaskNext ==
  \/ \E p \in Pages, ok \in BOOLEAN : ModelSettle(p, ok)
  \/ \E p \in Pages, throws \in BOOLEAN : Continue(p, throws)

Next ==
  \/ RenderFails
  \/ \E n \in 0..MaxPages, throws \in BOOLEAN : RenderDone(n, throws)
  \/ SchedulerNext
  \/ TaskNext
  \/ Assemble
  \/ ReconcileFails
  \/ \E answer \in OutlineAnswers : ReconcileDone(answer)
  \/ WriteFails
  \/ \E throws \in BOOLEAN : WriteDone(throws)

Spec == Init /\ [][Next]_vars

\* every started invocation settles, and every queued continuation runs
FairSpec ==
  /\ Spec
  /\ WF_vars(SchedulerNext)
  /\ WF_vars(TaskNext)

(***************************************************************************)
(* Properties of the bounded-concurrency pipeline.                         *)
(***************************************************************************)
\* the pages whose model invocation is started and not yet settled
InFlight == {p \in Pages : task[p] = "invoking"}

\* the page count of the run
Total == Len(imageFiles)

\* the positions in updates of the updates of one kind
UpdatesOf(kind) == {i \in 1..Len(updates) : updates[i].taskStatus = kind}

\* C1: with a concurrency limit C >= 1, in every reachable state the number
\* of model invocations started and not yet settled is at most C.
C1_ConcurrencyCeiling ==
  concurrency >= 1 => Cardinality(InFlight) <= concurrency

\* the ceiling is reached while pages are still queued
C1_Witness ==
  /\ concurrency >= 1
  /\ Cardinality(InFlight) = concurrency
  /\ Len(queue) > 0
  /\ \E p \in Pages : task[p] = "deleted"

\* the document of a run in which every one of n pages succeeded
RECURSIVE DocumentInPageOrder(_)
DocumentInPageOrder(n) ==
  IF n = 0 THEN <<>>
  ELSE DocumentInPageOrder(n - 1) \o PageText(n) \o <<"\n">>

\* parsePdf is past the assembly of the document
Assembled == pc \notin {"start", "pipeline"} /\ sched = "done"

\* C2: when all invocations succeed, whatever the completion order, the
\* assembled document is the page contents in ascending pageIndex order.
C2_OrderRestored ==
  (Assembled /\ concurrency >= 1 /\ \A p \in 1..Total : outcome[p] = "ok")
    => content = DocumentInPageOrder(Total)

\* all pages succeeded, fewer slots than pages, and a later page completed
\* before an earlier one
C2_Witness ==
  /\ Assembled
  /\ Total = MaxPages
  /\ concurrency >= 1
  /\ concurrency < Total
  /\ \A p \in 1..Total : outcome[p] = "ok"
  /\ \E i \in 1..(Len(pushOrder) - 1) : pushOrder[i] > pushOrder[i + 1]
  /\ pushOrder[Len(pushOrder)] = 1

\* C3: every page has its invocation started exactly once, in the order
\* given: the started pages followed by the queued ones are always the
\* input list, and when the scheduler returns every page has been started,
\* whether invocations failed or not.
C3_EachPageStartedOnce ==
  (pc # "start" /\ sched # "idle" /\ concurrency >= 1)
    => /\ results \o queue = imageFiles
       /\ sched = "done" => results = imageFiles

\* the scheduler has returned after a run with a failed and a later page
C3_Witness ==
  /\ sched = "done"
  /\ concurrency >= 1
  /\ Total = MaxPages
  /\ outcome[1] = "fail"
  /\ outcome[Total] = "ok"
  /\ results = imageFiles

\* the entries of the results collection that belong to page p
EntriesOf(p) == {i \in 1..Len(pageContents) : pageContents[i].pageIndex = p}

\* C4: a failed page invocation never aborts the run and contributes
\* nothing: once the pipeline has drained the results collection holds
\* exactly one entry per page whose invocation succeeded and none for a page
\* whose invocation failed, and the run leaves the pipeline only towards
\* the assembly and heading reconciliation.
C4_FailedPageContributesNothing ==
  /\ [](sched = "done" =>
          \A p \in 1..Total :
            /\ outcome[p] = "ok" => Cardinality(EntriesOf(p)) = 1
            /\ outcome[p] = "fail" => EntriesOf(p) = {})
  /\ [][pc = "pipeline" => pc' \in {"pipeline", "reconcile"}]_vars

\* a run with a failed page and a successful one reached reconciliation
C4_Witness ==
  /\ pc = "reconcile"
  /\ \E p \in 1..Total : outcome[p] = "fail"
  /\ \E p \in 1..Total : outcome[p] = "ok"
  /\ Len(pageContents) < Total

\* C5: with concurrency >= 1, if every started invocation settles,
\* processInParallel terminates, and then the pending queue and the
\* in-flight set are both empty.
C5_Terminates ==
  (concurrency >= 1 /\ pc = "pipeline")
    ~> (sched = "done" /\ Len(queue) = 0 /\ inProgress = {})

\* the scheduler has returned from a run over the largest document
C5_Witness ==
  /\ sched = "done"
  /\ concurrency >= 1
  /\ Total = MaxPages
  /\ Len(queue) = 0
  /\ inProgress = {}
  /\ Len(results) = MaxPages

(***************************************************************************)
(* Properties of the progress protocol and of the result.                  *)
(***************************************************************************)
\* the pages whose processImages call has run to its return
Completed == {p \in Pages : task[p] \in {"returned", "deleted"}}

\* the number of 'running' updates among the first i updates
RunningUpTo(i) == Cardinality({j \in UpdatesOf("running") : j <= i})

\* C6 as stated: the 'finished' update is emitted exactly once when the run
\* completes, only after the reconciled document is written, as the last
\* update, and never in a run where parsePdf rejects.
C6_FinishedNeverWhenRejected ==
  onProgressGiven =>
    /\ Cardinality(UpdatesOf("finished")) <= 1
    /\ UpdatesOf("finished") # {} =>
         /\ file.defined
         /\ updates[Len(updates)].taskStatus = "finished"
         /\ pc # "rejected"
    /\ pc = "resolved" => Cardinality(UpdatesOf("finished")) = 1

\* C6, amended: the 'finished' update is emitted exactly once when the run
\* completes, only after the reconciled document is written, as the last
\* update, and in a run where parsePdf rejects only when the rejection is
\* the exception thrown by onProgress from that very update.
C6_FinishedIffCompleted ==
  onProgressGiven =>
    /\ Cardinality(UpdatesOf("finished")) <= 1
    /\ UpdatesOf("finished") # {} =>
         /\ file.defined
         /\ file.value = convertContent
         /\ updates[Len(updates)].taskStatus = "finished"
         /\ pc \in {"resolved", "rejected"}
         /\ pc = "rejected" => (error = "onProgress" /\ "finished" \in thrown)
    /\ pc = "resolved" => Cardinality(UpdatesOf("finished")) = 1

\* a completed run that reported 'starting', 'running' and then 'finished'
C6_Witness ==
  /\ pc = "resolved"
  /\ onProgressGiven
  /\ Total = MaxPages
  /\ UpdatesOf("running") # {}
  /\ updates[Len(updates)].taskStatus = "finished"
  /\ file.defined

\* C7: within one run the current values passed to onProgress never
\* decrease, and total is the page count in every update.
C7_CurrentMonotone ==
  /\ \A i \in 1..(Len(updates) - 1) : updates[i].current <= updates[i + 1].current
  /\ \A i \in 1..Len(updates) : updates[i].total = Total

\* a completed run with a failed page and out-of-order completions
C7_Witness ==
  /\ pc = "resolved"
  /\ Total = MaxPages
  /\ Cardinality(UpdatesOf("running")) >= 2
  /\ \E p \in 1..Total : outcome[p] = "fail"
  /\ \E i \in 1..(Len(pushOrder) - 1) : pushOrder[i] > pushOrder[i + 1]
  /\ updates[Len(updates)].taskStatus = "finished"

\* the parts of the protocol C8 and its amendment share: one 'starting'
\* update with current = 0 before any invocation is started, the k-th
\* 'running' update carries current = k, 'finished' carries current = total
ProtocolShape ==
  /\ Cardinality(UpdatesOf("starting")) <= 1
  /\ (pc # "start" /\ error # "render") =>
       /\ Len(updates) >= 1
       /\ updates[1] = [current |-> 0, total |-> Total,
                        taskStatus |-> "starting"]
  /\ (\E p \in Pages : task[p] # "none") => UpdatesOf("starting") = {1}
  /\ \A i \in UpdatesOf("running") : updates[i].current = RunningUpTo(i)
  /\ \A i \in UpdatesOf("finished") : updates[i].current = Total

\* C8 as stated: ..., exactly one 'running' update for each page whose
\* invocation completes, successfully or not.
C8_RunningPerCompletedPage ==
  onProgressGiven =>
    /\ ProtocolShape
    /\ Cardinality(UpdatesOf("running")) = Cardinality(Completed)

\* C8, amended: exactly one 'starting' update with current = 0 is emitted
\* before any invocation is started; exactly one 'running' update is emitted
\* for each page whose invocation succeeded (none for a failed page), the
\* k-th carrying current = k; the 'finished' update carries current = total.
C8_ProgressProtocol ==
  onProgressGiven =>
    /\ ProtocolShape
    /\ Cardinality(UpdatesOf("running"))
         = Cardinality({p \in Completed : outcome[p] = "ok"})
    /\ Cardinality(UpdatesOf("running")) = Len(pageContents)

\* the pipeline has drained with two pages reported and one failed
C8_Witness ==
  /\ sched = "done"
  /\ onProgressGiven
  /\ Cardinality(UpdatesOf("running")) >= 2
  /\ \E p \in 1..Total : outcome[p] = "fail"
  /\ updates[1].taskStatus = "starting"

\* C9: on successful completion the content parsePdf returns is the text
\* written to the .md file, the document after heading reconciliation.
C9_ReturnedContentIsFileText ==
  pc = "resolved" => (returned.defined /\ file.defined /\ returned.value = file.value)

\* C10: an exception thrown by onProgress is never swallowed: no run in
\* which it threw resolves, and no page whose model invocation succeeded is
\* recorded as failed.
C10_CallbackErrorsPropagate ==
  /\ pc = "resolved" => thrown = {}
  /\ \A p \in Pages : outcome[p] = "ok" => marker[p] # "failure"

(***************************************************************************)
(* The heading helpers of src/src/utils.ts applied to drawn inputs.        *)
(***************************************************************************)
MaxDocLines == 2
MaxOutlineLines == 2

\* parsePdf has not been called
PipelineIdle ==
  /\ pc = "start"
  /\ error = "none"
  /\ onProgressGiven = FALSE
  /\ concurrency = 0
  /\ imageFiles = <<>>
  /\ queue = <<>>
  /\ inProgress = {}
  /\ results = <<>>
  /\ sched = "idle"
  /\ raceSet = {}
  /\ task = [p \in Pages |-> "none"]
  /\ outcome = [p \in Pages |-> "none"]
  /\ marker = [p \in Pages |-> "none"]
  /\ pageContents = <<>>
  /\ pushOrder = <<>>
  /\ updates = <<>>
  /\ thrown = {}
  /\ content = <<>>
  /\ convertContent = <<>>
  /\ file = Undefined
  /\ returned = Undefined
  /\ convertedTitleLLMResult = Undefined

pipelineVars == <<pc, error, onProgressGiven, concurrency, imageFiles, queue,
                  inProgress, results, sched, raceSet, task, outcome, marker,
                  pageContents, pushOrder, updates, thrown, content,
                  convertContent, file, returned, convertedTitleLLMResult>>

\* all sequences over S of length 0..n
SeqsUpTo(S, n) == UNION {[1..k -> S] : k \in 0..n}

\* lines a page recognition produces: headings at several depths, a heading
\* with a trailing space, one that ends with a carriage return, one with
\* text after a carriage return, one without a space after the marker, a
\* bare marker, and body text
DocLines ==
  { <<"#", " ", "A">>,
    <<"#", "#", " ", "A", ".", "1">>,
    <<"#", "#", " ", "B", " ">>,
    <<"#", " ", "A", "\r">>,
    <<"#", " ", "A", "\r", "x">>,
    <<"#", "C">>,
    <<"#">>,
    <<"x">> }

\* lines of a revised outline
OutlineLines ==
  { <<"#", "#", " ", "A">>,
    <<"#", "#", "#", " ", "A", ".", "1">>,
    <<"#", "#", " ", "B">>,
    <<"#", " ", "B">>,
    <<"#", "#", "#", " ", " ", "C", " ">>,
    <<"#", " ">> }

ExampleDoc ==
  JoinLines(<< <<"#", " ", "A">>, <<"#", "#", " ", "A", ".", "1">>,
               <<"#", " ", "B">> >>)
ExampleOutline ==
  JoinLines(<< <<"#", "#", " ", "A">>, <<"#", "#", "#", " ", "A", ".", "1">>,
               <<"#", "#", " ", "B">> >>)

Documents ==
  {ExampleDoc} \cup {JoinLines(ls) : ls \in SeqsUpTo(DocLines, MaxDocLines)}
Outlines ==
  {ExampleOutline}
    \cup {JoinLines(ls) : ls \in SeqsUpTo(OutlineLines, MaxOutlineLines)}

HeadingsInit ==
  /\ markdownText \in Documents
  /\ newTitle \in Outlines
  /\ adjusted = Undefined
  /\ ExtractIdle
  /\ RegionIdle
  /\ PipelineIdle
  /\ RectsIdle

\* const convertContent = adjustMarkdownHeadings(content, convertedTitle)
Adjust ==
  /\ ~adjusted.defined
  /\ adjusted' = Defined(adjustMarkdownHeadings(markdownText, newTitle))
  /\ UNCHANGED <<markdownText, newTitle, extractVars, regionVars,
                 pipelineVars, rectVars>>

HeadingsNext == Adjust

HeadingsSpec == HeadingsInit /\ [][HeadingsNext]_vars

(***************************************************************************)
(* Properties of heading reconciliation.                                   *)
(***************************************************************************)
\* a heading entry: marker depth and trimmed text after the marker
HeadingDepth(line) == RunLength(line, 0, "hash")
HeadingText(line) == Trim(Substring(line, HeadingDepth(line), Len(line)))
\* a heading line: one or more markers followed by text
IsHeadingLine(line) == HeadingDepth(line) > 0 /\ HeadingText(line) # <<>>

\* the heading entries of the corrected outline
OutlineEntries ==
  LET ls == SplitLines(newTitle)
  IN  {[level |-> HeadingDepth(ls[i]), text |-> HeadingText(ls[i])] :
         i \in {j \in 1..Len(ls) : IsHeadingLine(ls[j])}}

InLines == SplitLines(markdownText)
OutLines == SplitLines(adjusted.value)

\* the original heading lines whose text the corrected outline has
MatchedLines ==
  {i \in 1..Len(InLines) :
     /\ IsHeadingLine(InLines[i])
     /\ \E e \in OutlineEntries : e.text = HeadingText(InLines[i])}
\* the original heading lines whose text the corrected outline lacks
UnmatchedLines ==
  {i \in 1..Len(InLines) :
     /\ IsHeadingLine(InLines[i])
     /\ \A e \in OutlineEntries : e.text # HeadingText(InLines[i])}

ExampleAdjusted ==
  JoinLines(<< <<"#", "#", " ", "A">>, <<"#", "#", "#", " ", "A", ".", "1">>,
               <<"#", "#", " ", "B">> >>)

\* C11: every heading line of the original whose text appears in the
\* corrected outline is output at the marker depth the outline gives that
\* text, with the same text; "# A", "## A.1", "# B" with the outline
\* "## A\n### A.1\n## B" come out at depths 2, 3, 2.
C11_MatchedHeadingsRelevelled ==
  adjusted.defined =>
    /\ Len(OutLines) = Len(InLines)
    /\ \A i \in MatchedLines :
         /\ HeadingText(OutLines[i]) = HeadingText(InLines[i])
         /\ \E e \in OutlineEntries :
              /\ e.text = HeadingText(InLines[i])
              /\ e.level = HeadingDepth(OutLines[i])
    /\ (markdownText = ExampleDoc /\ newTitle = ExampleOutline)
         => adjusted.value = ExampleAdjusted

\* C12: a heading line of the original whose text does not occur in the
\* corrected outline is output unchanged, at the same position.
C12_UnmatchedHeadingUnchanged ==
  adjusted.defined =>
    /\ Len(OutLines) = Len(InLines)
    /\ \A i \in UnmatchedLines : OutLines[i] = InLines[i]

\* an unmatched heading next to a heading that was re-levelled
C12_Witness ==
  /\ adjusted.defined
  /\ UnmatchedLines # {}
  /\ \E i \in MatchedLines : OutLines[i] # InLines[i]

\* the answer holds no opening delimiter, or no closing delimiter after it
NoFencedBlock(answer) ==
  LET open == IndexOf(answer, FenceOpen)
  IN  \/ open = -1
      \/ IndexOf(Substring(answer, open + Len(FenceOpen), Len(answer)),
                 FenceClose) = -1

LastUpdateIs(kind) ==
  Len(updates) > 0 /\ updates[Len(updates)].taskStatus = kind

\* C13: when the answer of the reconciliation request holds no fenced
\* outline block the step is skipped without failing: parsePdf does not
\* reject because of it, the file holds exactly the assembled content, the
\* 'finished' update follows the write, and parsePdf resolves unless the
\* write fails or the callback throws.
C13_MissingOutlineIsSoftFailure ==
  (convertedTitleLLMResult.defined
     /\ NoFencedBlock(convertedTitleLLMResult.value)) =>
    /\ pc \in {"writing", "resolved", "rejected"}
    /\ convertContent = content
    /\ pc = "rejected" => error \in {"write", "onProgress"}
    /\ file.defined =>
         /\ file.value = content
         /\ onProgressGiven => LastUpdateIs("finished")
         /\ pc = "resolved" \/ "finished" \in thrown

\* a document with a heading is written after an answer that is a bare
\* outline, and the run resolves with the 'finished' update
C13_Witness ==
  /\ convertedTitleLLMResult = Defined(OutlineBare)
  /\ pc = "resolved"
  /\ onProgressGiven
  /\ LastUpdateIs("finished")
  /\ IndexOf(content, <<"#", " ", "a">>) = 0
  /\ file = Defined(content)

(***************************************************************************)
(* src/src/utils.js: rectangles.                                           *)
(*                                                                         *)
(* An entry of a rectangle list is a record [kind, bbox]:                  *)
(*   "feature"  a GeoJSON polygon made by createRect; bbox is turf.bbox    *)
(*   "null"     null or undefined                                          *)
(*   "object"   an object without type or geometry, with no coordinates    *)
(*   "broken"   an object with type and geometry whose geometry turf       *)
(*              cannot read                                                *)
(* turf.bbox throws on "object" and "broken".                              *)
(***************************************************************************)
NoBbox == <<0, 0, 0, 0>>
NullRect == [kind |-> "null", bbox |-> NoBbox]
ObjectRect == [kind |-> "object", bbox |-> NoBbox]
BrokenRect == [kind |-> "broken", bbox |-> NoBbox]

\* createRect(bbox) = turf.bboxPolygon(bbox), held by its bounding box
createRect(x0, y0, x1, y1) ==
  [kind |-> "feature",
   bbox |-> <<Min(x0, x1), Min(y0, y1), Max(x0, x1), Max(y0, y1)>>]

Falsy(rect) == rect.kind = "null"
\* rect.type && rect.geometry
HasTypeAndGeometry(rect) == rect.kind \in {"feature", "broken"}
\* turf.bbox(rect): [threw, value]
TurfBbox(rect) == [threw |-> rect.kind # "feature", value |-> rect.bbox]

\* the overlap test of getDistance
BboxOverlap(b1, b2) ==
  b1[1] <= b2[3] /\ b2[1] <= b1[3] /\ b1[2] <= b2[4] /\ b2[2] <= b1[4]

\* dx * dx + dy * dy of getDistance, for bounding boxes that do not overlap
GapSquared(b1, b2) ==
  LET dx == IF b1[3] < b2[1] THEN b2[1] - b1[3]
            ELSE IF b2[3] < b1[1] THEN b1[1] - b2[3] ELSE 0
      dy == IF b1[4] < b2[2] THEN b2[2] - b1[4]
            ELSE IF b2[4] < b1[2] THEN b1[2] - b2[4] ELSE 0
  IN  dx * dx + dy * dy

\* a comparison that leaves the buffer out
DistanceBelowNoBuffer(b1, b2, distance) ==
  IF BboxOverlap(b1, b2) THEN 0 < distance
  ELSE distance >= 0 /\ GapSquared(b1, b2) < distance * distance

\* getDistance(rect1, rect2) < distance with buffer = 0.1, on integers:
\* 0 < distance when the boxes overlap, else
\* sqrt(dx*dx + dy*dy) - 0.2 < distance, i.e. 5 * sqrt(..) < 5 * distance + 1
DistanceBelow(b1, b2, distance) ==
  IF BboxOverlap(b1, b2) THEN 0 < distance
  ELSE /\ distance >= 0
       /\ 25 * GapSquared(b1, b2) < (5 * distance + 1) * (5 * distance + 1)

\* isNear: false for a null argument and when getDistance throws
isNear(rect1, rect2, distance) ==
  IF Falsy(rect1) \/ Falsy(rect2) THEN FALSE
  ELSE IF TurfBbox(rect1).threw \/ TurfBbox(rect2).threw THEN FALSE
  ELSE DistanceBelow(TurfBbox(rect1).value, TurfBbox(rect2).value, distance)

Abs(n) == IF n < 0 THEN -n ELSE n

\* a test that takes every rectangle for a horizontal line
IsHorizontalLineAny(b) == b[4] - b[2] >= 0

\* a horizontal line: height < 2 and width > 10
IsHorizontalLine(b) == b[4] - b[2] < 2 /\ b[3] - b[1] > 10

\* isHorizontalNear: false for a null argument and when turf.bbox throws
isHorizontalNear(rect1, rect2, distance) ==
  IF Falsy(rect1) \/ Falsy(rect2) THEN FALSE
  ELSE IF TurfBbox(rect1).threw \/ TurfBbox(rect2).threw THEN FALSE
  ELSE
    LET bbox1 == TurfBbox(rect1).value
        bbox2 == TurfBbox(rect2).value
        horizontalOverlap ==
          \/ bbox1[1] <= bbox2[3] /\ bbox2[1] <= bbox1[3]
          \/ Abs(bbox1[1] - bbox2[1]) < 5
          \/ Abs(bbox1[3] - bbox2[3]) < 5
        verticalDistance ==
          Min(Abs(bbox1[2] - bbox2[4]), Abs(bbox1[4] - bbox2[2]))
    IN  IF IsHorizontalLine(bbox1) /\ IsHorizontalLine(bbox2)
        THEN IF horizontalOverlap THEN verticalDistance < distance
             ELSE FALSE
        ELSE FALSE

\* unionRects: null for two nulls and when turf.bbox throws
unionRects(rect1, rect2) ==
  IF Falsy(rect1) /\ Falsy(rect2) THEN NullRect
  ELSE IF Falsy(rect1) THEN rect2
  ELSE IF Falsy(rect2) THEN rect1
  ELSE IF TurfBbox(rect1).threw \/ TurfBbox(rect2).threw THEN NullRect
  ELSE LET bbox1 == TurfBbox(rect1).value
           bbox2 == TurfBbox(rect2).value
       IN  createRect(Min(bbox1[1], bbox2[1]), Min(bbox1[2], bbox2[2]),
                      Max(bbox1[3], bbox2[3]), Max(bbox1[4], bbox2[4]))

\* isValidRect: an object with type and geometry is valid as it is
isValidRect(rect) ==
  IF Falsy(rect) THEN FALSE
  ELSE IF ~HasTypeAndGeometry(rect)
    THEN LET b == TurfBbox(rect)
         IN  IF b.threw THEN FALSE
             ELSE /\ b.value[1] <= b.value[3]
                  /\ b.value[2] <= b.value[4]
                  /\ b.value[3] - b.value[1] > 0
                  /\ b.value[4] - b.value[2] > 0
  ELSE TRUE

(***************************************************************************)
(* src/packages/pdf2md/src/rectProcessor.ts                                *)
(*                                                                         *)
(* The rectList argument is [kind, items]: kind "array" with its items,    *)
(* or "null" / "nonArray" with no items.  horizontalDistance is <<>> for   *)
(* null and <<n>> for the number n.                                        *)
(***************************************************************************)
ArrayOf(items) == [kind |-> "array", items |-> items]
NullList == [kind |-> "null", items |-> <<>>]
NonArray == [kind |-> "nonArray", items |-> <<>>]

\* horizontalDistance && ...
Truthy(horizontalDistance) ==
  Len(horizontalDistance) = 1 /\ horizontalDistance[1] # 0

\* array.splice(i, 1) with 0-based i
SpliceOne(array, i) ==
  [k \in 1..(Len(array) - 1) |-> IF k <= i THEN array[k] ELSE array[k + 1]]

\* rect && isValidRect(rect)
KeepValid(rects) == SelectSeq(rects, LAMBDA r : ~Falsy(r) /\ isValidRect(r))

\* isNear(..) || (horizontalDistance && isHorizontalNear(..))
ShouldMerge(rect, otherRect, distance, horizontalDistance) ==
  \/ isNear(rect, otherRect, distance)
  \/ /\ Truthy(horizontalDistance)
     /\ isHorizontalNear(rect, otherRect, horizontalDistance[1])

\* the for loop over workingRects, from index i
RECURSIVE ScanOthers(_, _, _, _, _, _)
ScanOthers(rect, workingRects, i, merged, distance, horizontalDistance) ==
  IF i >= Len(workingRects)
  THEN [rect |-> rect, workingRects |-> workingRects, merged |-> merged]
  ELSE
    LET otherRect == workingRects[i + 1]
        mergedRect == unionRects(rect, otherRect)
    IN  IF /\ ~Falsy(otherRect)
           /\ ShouldMerge(rect, otherRect, distance, horizontalDistance)
           /\ ~Falsy(mergedRect)
        THEN ScanOthers(mergedRect, SpliceOne(workingRects, i), i, TRUE,
                        distance, horizontalDistance)
        ELSE ScanOthers(rect, workingRects, i + 1, merged, distance,
                        horizontalDistance)

\* the inner while loop: one pass over workingRects
RECURSIVE MergePass(_, _, _, _, _)
MergePass(workingRects, newRectList, merged, distance, horizontalDistance) ==
  IF Len(workingRects) = 0
  THEN [list |-> newRectList, merged |-> merged]
  ELSE IF Falsy(Head(workingRects))
  THEN MergePass(Tail(workingRects), newRectList, merged, distance,
                 horizontalDistance)
  ELSE
    LET scan == ScanOthers(Head(workingRects), Tail(workingRects), 0, merged,
                           distance, horizontalDistance)
    IN  MergePass(scan.workingRects, Append(newRectList, scan.rect),
                  scan.merged, distance, horizontalDistance)

\* a loop that stops after its first pass
MergeLoopOnePass(workingRects, merged, passes, distance, horizontalDistance) ==
  [list |-> MergePass(workingRects, <<>>, FALSE, distance,
                      horizontalDistance).list,
   passes |-> passes + 1]

\* the outer while loop; passes counts its iterations
RECURSIVE MergeLoop(_, _, _, _, _)
MergeLoop(workingRects, merged, passes, distance, horizontalDistance) ==
  IF merged /\ Len(workingRects) > 0
  THEN LET pass == MergePass(workingRects, <<>>, FALSE, distance,
                             horizontalDistance)
       IN  MergeLoop(pass.list, pass.merged, passes + 1, distance,
                     horizontalDistance)
  ELSE [list |-> workingRects, passes |-> passes]

\* mergeRects; no call in the try block throws, every helper catches its own
mergeRects(rectList, distance, horizontalDistance) ==
  IF rectList.kind # "array" \/ Len(rectList.items) = 0 THEN <<>>
  ELSE
    LET validRects == KeepValid(rectList.items)
    IN  IF Len(validRects) = 0 THEN <<>>
        ELSE KeepValid(MergeLoop(validRects, TRUE, 0, distance,
                                 horizontalDistance).list)

(***************************************************************************)
(* mergeRects applied to drawn lists, and applied again to its own output. *)
(***************************************************************************)
MaxRects == 3

\* the rectangles of test/testRectProcessor.js, a zero-width text item, and a
\* rectangle that is near the union of the first two but near neither
TextA == createRect(10, 10, 30, 20)
TextB == createRect(32, 12, 50, 22)
FarC == createRect(100, 100, 120, 120)
FarD == createRect(200, 200, 220, 220)
LineE == createRect(10, 50, 100, 51)
LineF == createRect(10, 80, 100, 81)
EmptyText == createRect(10, 10, 10, 20)
AboveAB == createRect(35, 0, 45, 5)

MergeEntries ==
  {TextA, TextB, FarC, FarD, LineE, LineF, EmptyText, AboveAB,
   NullRect, ObjectRect, BrokenRect}

MergeInputs ==
  {NullList, NonArray} \cup {ArrayOf(l) : l \in SeqsUpTo(MergeEntries, MaxRects)}

\* the distance thresholds: none, and the one of the tests
Distances == {0, 5}
\* horizontalDistance: not supplied, zero, and the one of the tests
HorizontalDistances == {<<>>, <<0>>, <<50>>}

MergeInit ==
  /\ \E rectList \in MergeInputs, distance \in Distances,
        horizontalDistance \in HorizontalDistances :
       rectCall = [op |-> "mergeRects", round |-> 1, rectList |-> rectList,
                   distance |-> distance,
                   horizontalDistance |-> horizontalDistance]
  /\ rectResult = Undefined
  /\ PipelineIdle
  /\ HeadingsIdle

\* mergeRects(rectList, distance, horizontalDistance) returns
CallMergeRects ==
  /\ rectCall.op = "mergeRects"
  /\ ~rectResult.defined
  /\ rectResult' = Defined(mergeRects(rectCall.rectList, rectCall.distance,
                                      rectCall.horizontalDistance))
  /\ UNCHANGED <<rectCall, pipelineVars, headingVars>>

\* the caller passes the returned list to mergeRects again, with the same
\* thresholds
PassResultBack ==
  /\ rectCall.op = "mergeRects"
  /\ rectCall.round = 1
  /\ rectResult.defined
  /\ rectCall' = [rectCall EXCEPT !.round = 2,
                                  !.rectList = ArrayOf(rectResult.value)]
  /\ rectResult' = Undefined
  /\ UNCHANGED <<pipelineVars, headingVars>>

MergeNext ==
  \/ CallMergeRects
  \/ PassResultBack

MergeSpec == MergeInit /\ [][MergeNext]_vars

MergeTypeOK ==
  /\ rectCall.op = "mergeRects"
  /\ rectCall.round \in {1, 2}

(***************************************************************************)
(* Properties of the region clustering operations.                         *)
(***************************************************************************)
MergeReturned == rectCall.op = "mergeRects" /\ rectResult.defined
MergeInput == rectCall.rectList.items
MergeOutput == rectResult.value

\* C14: mergeRects applied to its own output, with the same thresholds,
\* returns the same rectangles in the same order.
C14_MergeIdempotent ==
  (MergeReturned /\ rectCall.round = 2) => MergeOutput = MergeInput

\* the second call has returned a list of two or more rectangles, one of
\* them a union made by the first call, with horizontalDistance supplied
C14_Witness ==
  /\ MergeReturned
  /\ rectCall.round = 2
  /\ Truthy(rectCall.horizontalDistance)
  /\ Len(MergeOutput) >= 2
  /\ \E i \in 1..Len(MergeOutput) : MergeOutput[i] \notin MergeEntries

\* a rectangle proper: a polygon with positive width and height
Width(r) == r.bbox[3] - r.bbox[1]
Height(r) == r.bbox[4] - r.bbox[2]
IsProperRect(r) == r.kind = "feature" /\ Width(r) > 0 /\ Height(r) > 0

\* the gap between the intervals lo1..hi1 and lo2..hi2, 0 when they meet
AxisGap(lo1, hi1, lo2, hi2) == Max(0, Max(lo1, lo2) - Min(hi1, hi2))
GapX(a, b) == AxisGap(a.bbox[1], a.bbox[3], b.bbox[1], b.bbox[3])
GapY(a, b) == AxisGap(a.bbox[2], a.bbox[4], b.bbox[2], b.bbox[4])

\* the distance of a and b is below d: 0 < d when they overlap, else
\* sqrt(gx^2 + gy^2) - 0.2 < d, i.e. 10 * sqrt(..) < 10 * d + 2
CloserThan(a, b, d) ==
  IF GapX(a, b) = 0 /\ GapY(a, b) = 0 THEN 0 < d
  ELSE /\ 10 * d + 2 > 0
       /\ 100 * (GapX(a, b) * GapX(a, b) + GapY(a, b) * GapY(a, b))
            < (10 * d + 2) * (10 * d + 2)

BoundingUnion(a, b) ==
  [kind |-> "feature",
   bbox |-> <<Min(a.bbox[1], b.bbox[1]), Min(a.bbox[2], b.bbox[2]),
              Max(a.bbox[3], b.bbox[3]), Max(a.bbox[4], b.bbox[4])>>]

TwoProperRects ==
  /\ Len(MergeInput) = 2
  /\ IsProperRect(MergeInput[1])
  /\ IsProperRect(MergeInput[2])

\* C15: for two valid rectangles and no horizontalDistance, mergeRects
\* returns their bounding-box union alone when their distance is below d
\* and both rectangles unchanged otherwise; (10,10,30,20) and (32,12,50,22)
\* with d = 5 give (10,10,50,22), (100,100,120,120) and (200,200,220,220)
\* with d = 5 stay as they are.
C15_TwoRectsMergeByDistance ==
  (MergeReturned /\ TwoProperRects /\ rectCall.horizontalDistance = <<>>) =>
    /\ MergeOutput =
         IF CloserThan(MergeInput[1], MergeInput[2], rectCall.distance)
         THEN <<BoundingUnion(MergeInput[1], MergeInput[2])>>
         ELSE MergeInput
    /\ (MergeInput = <<TextA, TextB>> /\ rectCall.distance = 5)
         => /\ Len(MergeOutput) = 1
            /\ MergeOutput[1].bbox = <<10, 10, 50, 22>>
    /\ (MergeInput = <<FarC, FarD>> /\ rectCall.distance = 5)
         => MergeOutput = <<FarC, FarD>>

\* the two near rectangles of the test have been merged with d = 5
C15_Witness ==
  /\ MergeReturned
  /\ rectCall.round = 1
  /\ MergeInput = <<TextA, TextB>>
  /\ rectCall.distance = 5
  /\ rectCall.horizontalDistance = <<>>
  /\ Len(MergeOutput) = 1

\* a thin horizontal strip
IsThinStrip(r) == Height(r) < 2 /\ Width(r) > 10

\* the horizontal spans overlap, or the left or the right edges are within 5
SpansAligned(a, b) ==
  \/ GapX(a, b) = 0
  \/ Abs(a.bbox[1] - b.bbox[1]) < 5
  \/ Abs(a.bbox[3] - b.bbox[3]) < 5

\* the vertical gap: the smaller distance between a top and a bottom edge
VerticalGap(a, b) ==
  Min(Abs(a.bbox[2] - b.bbox[4]), Abs(a.bbox[4] - b.bbox[2]))

TwoPolygons ==
  /\ Len(MergeInput) = 2
  /\ MergeInput[1].kind = "feature"
  /\ MergeInput[2].kind = "feature"

HorizontalSupplied == rectCall.horizontalDistance # <<>>

\* C16: with h supplied, two thin strips (height < 2, width > 10) whose
\* spans overlap or whose left or right edges are within 5, and whose
\* vertical gap is below h, are merged even when they are not near; when
\* either rectangle is not a thin strip, or h is not supplied, the two are
\* merged only if they are near.  (10,50,100,51) and (10,80,100,81) with
\* d = 5, h = 50 merge into one rectangle.
C16_HorizontalStripsMerge ==
  (MergeReturned /\ TwoPolygons) =>
    LET a == MergeInput[1]
        b == MergeInput[2]
        near == CloserThan(a, b, rectCall.distance)
        strips == IsThinStrip(a) /\ IsThinStrip(b)
    IN  /\ ( /\ HorizontalSupplied
             /\ strips
             /\ SpansAligned(a, b)
             /\ VerticalGap(a, b) < rectCall.horizontalDistance[1] )
             => MergeOutput = <<BoundingUnion(a, b)>>
        /\ (~HorizontalSupplied \/ ~strips)
             => (Len(MergeOutput) = 1 <=> near)
        /\ ( /\ MergeInput = <<LineE, LineF>>
             /\ rectCall.distance = 5
             /\ rectCall.horizontalDistance = <<50>> )
             => /\ Len(MergeOutput) = 1
                /\ MergeOutput[1].bbox = <<10, 50, 100, 81>>

\* the two lines of the test, which are not near at d = 5, have been merged
C16_Witness ==
  /\ MergeReturned
  /\ rectCall.round = 1
  /\ MergeInput = <<LineE, LineF>>
  /\ rectCall.distance = 5
  /\ rectCall.horizontalDistance = <<50>>
  /\ ~CloserThan(LineE, LineF, 5)
  /\ Len(MergeOutput) = 1

\* a polygon with zero width or zero height
IsDegenerate(r) == r.kind = "feature" /\ (Width(r) = 0 \/ Height(r) = 0)

\* C17: a rectangle with zero width or zero height is invalid: isValidRect
\* returns false for it, mergeRects discards it before merging (alone in
\* the list it leaves nothing), and no rectangle mergeRects returns has
\* zero width or zero height.
C17_DegenerateRectsExcluded ==
  (MergeReturned /\ rectCall.rectList.kind = "array") =>
    /\ \A i \in 1..Len(MergeInput) :
         IsDegenerate(MergeInput[i]) => ~isValidRect(MergeInput[i])
    /\ (\A i \in 1..Len(MergeInput) : IsDegenerate(MergeInput[i]))
         => MergeOutput = <<>>
    /\ \A i \in 1..Len(MergeOutput) : ~IsDegenerate(MergeOutput[i])

\* the entries of the input that are valid rectangles
ProperEntries ==
  {i \in 1..Len(MergeInput) : IsProperRect(MergeInput[i])}

\* C20: mergeRects returns a list for every input: the empty list for null,
\* a non-array, an empty list or a list without a valid rectangle, and
\* otherwise a list in which every entry is a valid rectangle, the null and
\* malformed entries having been dropped.
C20_MergeReturnsValidRects ==
  MergeReturned =>
    /\ rectCall.rectList.kind # "array" => MergeOutput = <<>>
    /\ ProperEntries = {} => MergeOutput = <<>>
    /\ \A i \in 1..Len(MergeOutput) : IsProperRect(MergeOutput[i])

(***************************************************************************)
(* adsorbRectsToRects (rectProcessor.ts, lines 79-104) on drawn lists.     *)
(***************************************************************************)
MaxTargets == 2

\* a scan that merges into the last near target
AdsorbOneLastNear(rect, targets, i, distance) ==
  LET hits == {k \in (i + 1)..Len(targets) : isNear(rect, targets[k], distance)}
      last == CHOOSE k \in hits : \A j \in hits : k >= j
  IN  IF hits = {} THEN [adsorbed |-> FALSE, targets |-> targets]
      ELSE [adsorbed |-> TRUE,
            targets |-> [targets EXCEPT ![last] = unionRects(rect, targets[last])]]

\* the inner for loop, from index i: stops at the first near target
RECURSIVE AdsorbOne(_, _, _, _)
AdsorbOne(rect, targets, i, distance) ==
  IF i >= Len(targets) THEN [adsorbed |-> FALSE, targets |-> targets]
  ELSE IF /\ isNear(rect, targets[i + 1], distance)
          /\ ~Falsy(unionRects(rect, targets[i + 1]))
  THEN [adsorbed |-> TRUE,
        targets |-> [targets EXCEPT ![i + 1] = unionRects(rect, targets[i + 1])]]
  ELSE AdsorbOne(rect, targets, i + 1, distance)

\* the for loop over sourceRects
RECURSIVE AdsorbLoop(_, _, _, _)
AdsorbLoop(sourceRects, newSourceRects, updatedTargetRects, distance) ==
  IF Len(sourceRects) = 0 THEN <<newSourceRects, updatedTargetRects>>
  ELSE LET one == AdsorbOne(Head(sourceRects), updatedTargetRects, 0, distance)
       IN  AdsorbLoop(Tail(sourceRects),
                      IF one.adsorbed THEN newSourceRects
                      ELSE Append(newSourceRects, Head(sourceRects)),
                      one.targets, distance)

adsorbRectsToRects(sourceRects, targetRects, distance) ==
  AdsorbLoop(sourceRects, <<>>, targetRects, distance)

\* two targets side by side and one far away, a source between the two that
\* is nearer to the second, and a source that is near the first target
\* only once the first source has been merged into it
TargetLeft == createRect(10, 10, 30, 30)
TargetRight == createRect(40, 10, 60, 30)
Between == createRect(33, 15, 38, 25)
Below == createRect(33, 35, 38, 45)
AdsorbEntries == {TargetLeft, TargetRight, FarD, Between, Below}
AdsorbDistances == {5, 10}

AdsorbInit ==
  /\ \E sourceRects \in SeqsUpTo(AdsorbEntries, MaxRects),
        targetRects \in SeqsUpTo(AdsorbEntries, MaxTargets),
        distance \in AdsorbDistances :
       rectCall = [op |-> "adsorbRectsToRects", sourceRects |-> sourceRects,
                   targetRects |-> targetRects, distance |-> distance]
  /\ rectResult = Undefined
  /\ PipelineIdle
  /\ HeadingsIdle

\* adsorbRectsToRects(sourceRects, targetRects, distance) returns
CallAdsorb ==
  /\ rectCall.op = "adsorbRectsToRects"
  /\ ~rectResult.defined
  /\ rectResult' = Defined(adsorbRectsToRects(rectCall.sourceRects,
                             rectCall.targetRects, rectCall.distance))
  /\ UNCHANGED <<rectCall, pipelineVars, headingVars>>

AdsorbNext == CallAdsorb

AdsorbSpec == AdsorbInit /\ [][AdsorbNext]_vars

AdsorbReturned == rectCall.op = "adsorbRectsToRects" /\ rectResult.defined

\* the targets near s, by index
NearTargets(s, targets, d) ==
  {i \in 1..Len(targets) : CloserThan(s, targets[i], d)}
FirstOf(indices) == CHOOSE i \in indices : \A j \in indices : i <= j

\* the sources taken in order, each merged into the first target near it
\* among the targets as enlarged so far: <<sources left over, targets>>
RECURSIVE GreedyAdsorb(_, _, _, _)
GreedyAdsorb(sources, leftOver, targets, d) ==
  IF Len(sources) = 0 THEN <<leftOver, targets>>
  ELSE LET s == Head(sources)
           near == NearTargets(s, targets, d)
       IN  IF near = {}
           THEN GreedyAdsorb(Tail(sources), Append(leftOver, s), targets, d)
           ELSE GreedyAdsorb(Tail(sources), leftOver,
                  [targets EXCEPT
                     ![FirstOf(near)] = BoundingUnion(s, targets[FirstOf(near)])],
                  d)

\* C18: adsorbRectsToRects takes the sources in order and merges each into
\* the first target, in list order, that is near it, and into no other;
\* the target is replaced in place by the union, so later sources are
\* tested against the enlarged targets; sources with no near target come
\* back unchanged in their order, and the number of targets is unchanged.
C18_AdsorbGreedyFirstTarget ==
  AdsorbReturned =>
    /\ rectResult.value =
         GreedyAdsorb(rectCall.sourceRects, <<>>, rectCall.targetRects,
                      rectCall.distance)
    /\ Len(rectResult.value[2]) = Len(rectCall.targetRects)
    /\ (\A i \in 1..Len(rectCall.sourceRects) :
          NearTargets(rectCall.sourceRects[i], rectCall.targetRects,
                      rectCall.distance) = {})
         => rectResult.value = <<rectCall.sourceRects, rectCall.targetRects>>

\* the source between two targets went into the first, which is the farther
\* one, and the next source into that target as enlarged; a far source is
\* left over
C18_Witness ==
  /\ AdsorbReturned
  /\ rectCall.sourceRects = <<Between, Below, FarD>>
  /\ rectCall.targetRects = <<TargetLeft, TargetRight>>
  /\ rectCall.distance = 5
  /\ ~CloserThan(Below, TargetLeft, 5)
  /\ GapX(Between, TargetRight) < GapX(Between, TargetLeft)
  /\ rectResult.value[1] = <<FarD>>
  /\ rectResult.value[2] = <<createRect(10, 10, 38, 45), TargetRight>>

(***************************************************************************)
(* filterSmallRects (rectProcessor.ts, lines 125-132) on drawn lists.      *)
(***************************************************************************)
\* a filter that also keeps a rectangle of exactly the minimum size
filterSmallRectsInclusive(rects, minWidth, minHeight) ==
  SelectSeq(rects,
    LAMBDA rect :
      LET bbox == TurfBbox(rect).value
      IN  bbox[3] - bbox[1] >= minWidth /\ bbox[4] - bbox[2] >= minHeight)

filterSmallRects(rects, minWidth, minHeight) ==
  SelectSeq(rects,
    LAMBDA rect :
      LET bbox == TurfBbox(rect).value
          width == bbox[3] - bbox[1]
          height == bbox[4] - bbox[2]
      IN  width > minWidth /\ height > minHeight)

\* rectangles of 20 x 20, 21 x 21, 21 x 20, 20 x 10, 90 x 1 and 5 x 5
Square21 == createRect(100, 100, 121, 121)
Wide21 == createRect(100, 100, 121, 120)
SmallG == createRect(300, 300, 305, 305)
FilterEntries == {FarC, Square21, Wide21, TextA, LineE, SmallG}
\* the minimum of the test and the default minimum
MinSizes == {10, 20}

FilterInit ==
  /\ \E rects \in SeqsUpTo(FilterEntries, MaxRects),
        minWidth \in MinSizes, minHeight \in MinSizes :
       rectCall = [op |-> "filterSmallRects", rects |-> rects,
                   minWidth |-> minWidth, minHeight |-> minHeight]
  /\ rectResult = Undefined
  /\ PipelineIdle
  /\ HeadingsIdle

\* filterSmallRects(rects, minWidth, minHeight) returns
CallFilter ==
  /\ rectCall.op = "filterSmallRects"
  /\ ~rectResult.defined
  /\ rectResult' = Defined(filterSmallRects(rectCall.rects, rectCall.minWidth,
                                            rectCall.minHeight))
  /\ UNCHANGED <<rectCall, pipelineVars, headingVars>>

FilterNext == CallFilter

FilterSpec == FilterInit /\ [][FilterNext]_vars

FilterReturned == rectCall.op = "filterSmallRects" /\ rectResult.defined

\* the positions of the rectangles larger than the minimum on both axes
LargeEnough ==
  {i \in 1..Len(rectCall.rects) :
     /\ Width(rectCall.rects[i]) > rectCall.minWidth
     /\ Height(rectCall.rects[i]) > rectCall.minHeight}
\* the k-th smallest member of a set of positions
NthOf(positions, k) ==
  CHOOSE i \in positions : Cardinality({j \in positions : j <= i}) = k

\* C19: filterSmallRects keeps a rectangle iff its width is strictly greater
\* than minWidth and its height strictly greater than minHeight: one of
\* exactly minWidth x minHeight is dropped, one a unit larger on both axes
\* is kept, and the kept rectangles stay in their relative order.
C19_FilterStrictlyLarger ==
  FilterReturned =>
    /\ Len(rectResult.value) = Cardinality(LargeEnough)
    /\ \A k \in 1..Len(rectResult.value) :
         rectResult.value[k] = rectCall.rects[NthOf(LargeEnough, k)]
    /\ \A k \in 1..Len(rectResult.value) :
         ~( /\ Width(rectResult.value[k]) = rectCall.minWidth
            /\ Height(rectResult.value[k]) = rectCall.minHeight )
    /\ \A i \in 1..Len(rectCall.rects) :
         ( /\ Width(rectCall.rects[i]) = rectCall.minWidth + 1
           /\ Height(rectCall.rects[i]) = rectCall.minHeight + 1 )
           => \E k \in 1..Len(rectResult.value) :
                rectResult.value[k] = rectCall.rects[i]

\* of a 20 x 20, a 5 x 5 and a 21 x 21 rectangle with minima 20 and 20, only
\* the last is returned
C19_Witness ==
  /\ FilterReturned
  /\ rectCall.rects = <<FarC, SmallG, Square21>>
  /\ rectCall.minWidth = 20
  /\ rectCall.minHeight = 20
  /\ rectResult.value = <<Square21>>

(***************************************************************************)
(* Further properties of the pipeline.                                     *)
(***************************************************************************)
\* C21: with concurrency >= 1, whenever processInParallel suspends on
\* Promise.race the set it waits for is not empty, and it either holds
\* exactly `concurrency` promises or the queue is empty: the scheduler never
\* waits with a free slot and a queued page.
C21_WorkConserving ==
  (sched = "waiting" /\ concurrency >= 1) =>
    /\ raceSet # {}
    /\ Cardinality(raceSet) = concurrency \/ Len(queue) = 0

\* the scheduler waits again, after a settlement, with every slot taken and
\* a page still queued
C21_Witness ==
  /\ sched = "waiting"
  /\ concurrency = 2
  /\ Cardinality(raceSet) = 2
  /\ Len(queue) > 0
  /\ \E p \in Pages : task[p] = "deleted"

(***************************************************************************)
(* Further properties of the region clustering operations.                 *)
(***************************************************************************)
\* the merge predicate on two polygons: near at d, or, with h supplied,
\* thin strips that are aligned and vertically closer than h
WouldMerge(a, b) ==
  \/ CloserThan(a, b, rectCall.distance)
  \/ /\ HorizontalSupplied
     /\ IsThinStrip(a) /\ IsThinStrip(b)
     /\ SpansAligned(a, b)
     /\ VerticalGap(a, b) < rectCall.horizontalDistance[1]

PolygonsOf(list) == {i \in 1..Len(list) : list[i].kind = "feature"}

\* C22: the list mergeRects returns is a fixpoint of merging: no two
\* distinct rectangles of it satisfy the merge predicate, whatever the input
\* list and its order, so no transitive merge is missed.
C22_OutputIsFixpoint ==
  MergeReturned =>
    \A i, j \in PolygonsOf(MergeOutput) :
      i # j => ~WouldMerge(MergeOutput[i], MergeOutput[j])

\* a rectangle near neither of two others, but near their union, has been
\* merged with them although it came first in the list
C22_Witness ==
  /\ MergeReturned
  /\ rectCall.round = 1
  /\ MergeInput = <<AboveAB, TextA, TextB>>
  /\ rectCall.distance = 5
  /\ ~CloserThan(AboveAB, TextA, 5)
  /\ ~CloserThan(AboveAB, TextB, 5)
  /\ MergeOutput = <<createRect(10, 0, 50, 22)>>

(***************************************************************************)
(* Further properties of heading reconciliation.                           *)
(***************************************************************************)
\* the matched heading lines that end with white space (a blank or a
\* carriage return after the text)
TrailingBlankLines ==
  {i \in MatchedLines : IsWs(InLines[i][Len(InLines[i])])}

\* C23: an original heading is matched by its trimmed text: a heading line
\* that differs from a heading of the corrected outline only by white space
\* around the text, such as a trailing space or a trailing carriage return,
\* is rewritten to the level the outline gives.
C23_MatchByTrimmedText ==
  adjusted.defined =>
    \A i \in TrailingBlankLines :
      \E e \in OutlineEntries :
        /\ e.text = HeadingText(InLines[i])
        /\ HeadingDepth(OutLines[i]) = e.level

(***************************************************************************)
(* extractMdFromLLMOutput (src/src/utils.ts, lines 19-29) on drawn answers.*)
(***************************************************************************)
MaxSegments == 5

\* the pieces a model answer is made of: the opening delimiter with its
\* line break, the closing delimiter, a heading line and a line of prose
SegOpen == FenceOpen \o <<"\n">>
SegClose == FenceClose
SegHeading == <<"#", " ", "a", "\n">>
SegProse == <<"t", "\n">>
Segments == {SegOpen, SegClose, SegHeading, SegProse}

RECURSIVE Concat(_)
Concat(pieces) ==
  IF Len(pieces) = 0 THEN <<>> ELSE Head(pieces) \o Concat(Tail(pieces))

LLMOutputs == {Concat(ps) : ps \in SeqsUpTo(Segments, MaxSegments)}

ExtractInit ==
  /\ llmOutput \in LLMOutputs
  /\ extracted = <<>>
  /\ markdownText = <<>>
  /\ newTitle = <<>>
  /\ adjusted = Undefined
  /\ RegionIdle
  /\ PipelineIdle
  /\ RectsIdle

\* const convertedTitle = extractMdFromLLMOutput(convertedTitleLLMResult)
Extract ==
  /\ extracted = <<>>
  /\ extracted' = <<extractMdFromLLMOutput(llmOutput)>>
  /\ UNCHANGED <<llmOutput, markdownText, newTitle, adjusted, regionVars,
                 pipelineVars, rectVars>>

ExtractNext == Extract

ExtractSpec == ExtractInit /\ [][ExtractNext]_vars

\* the position after the first opening delimiter and its line break, and
\* the position of the first closing delimiter from there on; -1 if absent
BlockStart ==
  LET open == IndexOf(llmOutput, FenceOpen)
  IN  IF open = -1 THEN -1 ELSE open + Len(FenceOpen) + 1
BlockEnd ==
  LET rest == Substring(llmOutput, BlockStart, Len(llmOutput))
  IN  IF BlockStart = -1 \/ IndexOf(rest, FenceClose) = -1 THEN -1
      ELSE BlockStart + IndexOf(rest, FenceClose)

\* C24: extractMdFromLLMOutput returns the content of the first fenced
\* block: the text between the first opening delimiter and the first closing
\* delimiter after it; what follows that closing delimiter, a later fenced
\* block included, is not part of the outline.
C24_FirstFencedBlock ==
  (Len(extracted) = 1 /\ BlockEnd # -1) =>
    extracted[1] = Defined(Substring(llmOutput, BlockStart, BlockEnd))

\* C25: with a concurrency limit <= 0 and at least one page, processInParallel
\* starts no invocation, never suspends and never returns: after the
\* 'starting' update no 'running' or 'finished' update is emitted and parsePdf
\* neither resolves nor rejects.
C25_NonPositiveLimitNeverEnds ==
  (concurrency <= 0 /\ Total >= 1 /\ sched # "idle") =>
    /\ \A p \in Pages : task[p] \in {"none", "queued"}
    /\ queue = imageFiles
    /\ inProgress = {}
    /\ results = <<>>
    /\ sched \in {"filling", "spinning"}
    /\ pc = "pipeline"
    /\ UpdatesOf("running") = {}
    /\ UpdatesOf("finished") = {}
    /\ ~returned.defined
    /\ error = "none"

\* the scheduler loops with a negative limit over a document of several
\* pages after the 'starting' update was delivered
C25_Witness ==
  /\ concurrency < 0
  /\ Total = MaxPages
  /\ sched = "spinning"
  /\ Len(queue) = Total
  /\ UpdatesOf("starting") # {}

\* C26: when the text-only invocation of the reconciliation step rejects,
\* parsePdf rejects with that error: no file is written, no 'finished' update
\* is emitted and nothing is returned, also when every page succeeded and a
\* 'running' update already reported current = total.
C26_ReconcileFailureRejects ==
  error = "reconcile" =>
    /\ pc = "rejected"
    /\ ~file.defined
    /\ ~returned.defined
    /\ UpdatesOf("finished") = {}

\* the reconciliation request failed after every page of the largest
\* document had succeeded and 'running' had reached current = total
C26_Witness ==
  /\ error = "reconcile"
  /\ pc = "rejected"
  /\ Total = MaxPages
  /\ \A p \in 1..Total : outcome[p] = "ok"
  /\ \E i \in UpdatesOf("running") :
       updates[i].current = Total /\ updates[i].total = Total

(***************************************************************************)
(* convertImagesToMarkdown (src/src/markdownConverter.js, lines 38-109):   *)
(* the region images of one page.                                          *)
(***************************************************************************)
MaxRegions == 4
MaxBatchSize == 3

Regions == 1..rectImages

\* tasks.slice(i, i + concurrency): the regions of the batch that starts at i
Batch(i) == {r \in Regions : i < r /\ r <= i + batchSize}

Settled(r) == tasks[r] \in {"markdown", "comment"}

\* results.sort((a, b) => a.rectIndex - b.rectIndex)
RECURSIVE SortByRectIndex(_)
SortByRectIndex(list) ==
  IF Len(list) = 0 THEN <<>>
  ELSE LET lowest == CHOOSE k \in 1..Len(list) :
                       \A j \in 1..Len(list) : list[k] <= list[j]
       IN  <<list[lowest]>> \o
           SortByRectIndex(SubSeq(list, 1, lowest - 1) \o
                           SubSeq(list, lowest + 1, Len(list)))

\* the entries of a batch in the order of the tasks array
RECURSIVE BatchEntries(_, _)
BatchEntries(from, to) ==
  IF from > to THEN <<>> ELSE <<from>> \o BatchEntries(from + 1, to)

RegionInit ==
  /\ regionPc = "start"
  /\ rectImages \in 0..MaxRegions
  /\ batchSize \in 1..MaxBatchSize
  /\ tasks = <<>>
  /\ batchStart = 0
  /\ batchResults = <<>>
  /\ pageMarkdown = <<>>
  /\ llmOutput = <<>>
  /\ extracted = <<>>
  /\ markdownText = <<>>
  /\ newTitle = <<>>
  /\ adjusted = Undefined
  /\ PipelineIdle
  /\ RectsIdle

\* rectImages.map(async ...): every callback runs to its await, which is
\* after its call of processImageToMarkdown; then the batch loop is entered
\* and reaches await Promise.all(batch), or is skipped for an empty page
MapTasks ==
  /\ regionPc = "start"
  /\ tasks' = [r \in Regions |-> "invoking"]
  /\ IF 0 < rectImages
     THEN /\ regionPc' = "awaiting"
          /\ UNCHANGED pageMarkdown
     ELSE /\ regionPc' = "done"
          /\ pageMarkdown' = SortByRectIndex(batchResults)
  /\ UNCHANGED <<rectImages, batchSize, batchStart, batchResults>>
  /\ UNCHANGED <<markdownText, newTitle, adjusted, extractVars, pipelineVars,
                 rectVars>>

\* the model invocation of one region settles: the task resolves with the
\* markdown, or through its catch with a comment
SettleTask(r, ok) ==
  /\ regionPc = "awaiting"
  /\ tasks[r] = "invoking"
  /\ tasks' = [tasks EXCEPT ![r] = IF ok THEN "markdown" ELSE "comment"]
  /\ UNCHANGED <<regionPc, rectImages, batchSize, batchStart, batchResults,
                 pageMarkdown>>
  /\ UNCHANGED <<markdownText, newTitle, adjusted, extractVars, pipelineVars,
                 rectVars>>

\* Promise.all(batch) resolves: push the results, i += concurrency, and
\* either await the next batch or sort and finish the page
BatchResolves ==
  /\ regionPc = "awaiting"
  /\ \A r \in Batch(batchStart) : Settled(r)
  /\ batchResults' = batchResults \o
       BatchEntries(batchStart + 1, Min(batchStart + batchSize, rectImages))
  /\ batchStart' = batchStart + batchSize
  /\ IF batchStart' < rectImages
     THEN /\ UNCHANGED <<regionPc, pageMarkdown>>
     ELSE /\ regionPc' = "done"
          /\ pageMarkdown' = SortByRectIndex(batchResults')
  /\ UNCHANGED <<rectImages, batchSize, tasks>>
  /\ UNCHANGED <<markdownText, newTitle, adjusted, extractVars, pipelineVars,
                 rectVars>>

RegionNext ==
  \/ MapTasks
  \/ \E r \in Regions, ok \in BOOLEAN : SettleTask(r, ok)
  \/ BatchResolves

RegionSpec == RegionInit /\ [][RegionNext]_vars

\* the regions whose model invocation was started and has not yet settled
RegionInFlight == {r \in DOMAIN tasks : tasks[r] = "invoking"}

\* the number of the batch a region belongs to
BatchOf(r) == (r - 1) \div batchSize

\* C27: the region images of a page are processed according to the
\* concurrency option: at most that many model invocations of the page are in
\* flight at any time, and no invocation of a later batch is started before
\* every invocation of the batches before it has settled.
C27_RegionBatchesBounded ==
  regionPc \in {"awaiting", "done"} =>
    /\ Cardinality(RegionInFlight) <= batchSize
    /\ \A r, q \in Regions :
         (BatchOf(r) < BatchOf(q) /\ tasks[q] # "none") => Settled(r)

\* C28: adjustMarkdownHeadings changes only heading depth: the output has as
\* many lines as the input, every line that does not match the heading-marker
\* pattern is output unchanged at its position, and every heading line that
\* is rewritten keeps its heading text.
C28_OnlyHeadingDepthChanges ==
  adjusted.defined =>
    /\ Len(OutLines) = Len(InLines)
    /\ \A i \in 1..Len(InLines) :
         /\ ~MatchHeadingLine(InLines[i]).matched => OutLines[i] = InLines[i]
         /\ OutLines[i] # InLines[i]
              => HeadingText(OutLines[i]) = HeadingText(InLines[i])

\* the positions in the corrected outline of the headings with a given text
OutlineOccurrences(text) ==
  LET ls == SplitLines(newTitle)
  IN  {j \in 1..Len(ls) : IsHeadingLine(ls[j]) /\ HeadingText(ls[j]) = text}

\* the marker depth of the last heading of the corrected outline with a text
LastLevel(text) ==
  LET occ  == OutlineOccurrences(text)
      last == CHOOSE j \in occ : \A k \in occ : k <= j
  IN  HeadingDepth(SplitLines(newTitle)[last])

\* C29: when the corrected outline holds the same heading text more than
\* once, the mapping keeps the level of the last occurrence, and every heading
\* line of the original with that text is rewritten to that level, wherever
\* it stands in the document.
C29_DuplicateTextLastWins ==
  adjusted.defined =>
    \A e \in OutlineEntries :
      Cardinality(OutlineOccurrences(e.text)) >= 2 =>
        /\ e.text \in DOMAIN createTitleLevelMap(newTitle)
        /\ createTitleLevelMap(newTitle)[e.text] = LastLevel(e.text)
        /\ \A i \in 1..Len(InLines) :
             (IsHeadingLine(InLines[i]) /\ HeadingText(InLines[i]) = e.text)
               => HeadingDepth(OutLines[i]) = LastLevel(e.text)

\* rectangle a lies entirely inside rectangle b
ContainedIn(a, b) ==
  /\ b.kind = "feature"
  /\ b.bbox[1] <= a.bbox[1]
  /\ b.bbox[2] <= a.bbox[2]
  /\ a.bbox[3] <= b.bbox[3]
  /\ a.bbox[4] <= b.bbox[4]

\* the bounding box of the input rectangles at the positions of group
GroupBox(group) ==
  LET Lo(k) == CHOOSE v \in {MergeInput[i].bbox[k] : i \in group} :
                 \A i \in group : v <= MergeInput[i].bbox[k]
      Hi(k) == CHOOSE v \in {MergeInput[i].bbox[k] : i \in group} :
                 \A i \in group : v >= MergeInput[i].bbox[k]
  IN  <<Lo(1), Lo(2), Hi(3), Hi(4)>>

\* the iterations the outer while of the call made
MergePasses ==
  MergeLoop(KeepValid(MergeInput), TRUE, 0, rectCall.distance,
            rectCall.horizontalDistance).passes

\* C30: mergeRects loses no content and terminates: every valid input
\* rectangle lies inside some output rectangle, every output rectangle is the
\* bounding box of a non-empty group of valid input rectangles, the output has
\* no more rectangles than the valid input, and the passes made are at most
\* the number of valid input rectangles.
C30_MergeLosesNothing ==
  (MergeReturned /\ rectCall.rectList.kind = "array") =>
    /\ \A i \in ProperEntries :
         \E j \in 1..Len(MergeOutput) :
           ContainedIn(MergeInput[i], MergeOutput[j])
    /\ \A j \in 1..Len(MergeOutput) :
         /\ MergeOutput[j].kind = "feature"
         /\ \E group \in (SUBSET ProperEntries) \ {{}} :
              MergeOutput[j].bbox = GroupBox(group)
    /\ Len(MergeOutput) <= Cardinality(ProperEntries)
    /\ ProperEntries # {} => MergePasses <= Cardinality(ProperEntries)
====
